---- MODULE Spec2Model ----
(***************************************************************************)
(* Model of the WebSocket adapter of src/lib.rs: the connect future        *)
(* (Socket::new), the callbacks it installs on the host socket, the        *)
(* unbounded inbound channel, and the Stream / Sink / Drop operations of   *)
(* the Socket it returns.  The host socket and the executor are the        *)
(* environment: the host fires any event at any time, the executor polls   *)
(* the connect future and calls the adapter whenever it likes.             *)
(***************************************************************************)
EXTENDS Integers, Sequences, FiniteSets, TLC

\* ---------------------------------------------------------------- bounds
MaxEvents == 4     \* host events fired in one behaviour
MaxOps == 3        \* adapter operations called in one behaviour

\* Byte payloads a message event may carry (the two of the spec's scenario),
\* error values the host may hand out.
Payloads == { <<1, 2>>, <<3>> }
Outbound == { <<4, 5>> }   \* items the caller hands to start_send
Errors == { "e1", "e2" }
CtorErr == "ctor"      \* the value WebSocket::new fails with
HostErr == "rejected"  \* the value a rejected send() / close() throws

VARIABLES
  \* --- the connect future (Socket::new)
  pc,            \* "created" | "awaiting" | "done" | "abandoned" | "panicked"
  sockOk,        \* WebSocket::new(url) returned Ok
  result,        \* <<"none">> | <<"Ok">> | <<"Err", e>> : the future's output (<<"panic">>: none, it panicked)
  open_sender,   \* the Option inside on_open: TRUE = Some(sender)
  error_sender,  \* the Option inside on_error: TRUE = Some(sender)
  open,          \* oneshot cell read by select: "empty" | "None"
  error,         \* oneshot cell read by select: "empty" | e (Some(e))
  hsLive,        \* the on_open / on_error closures have not been dropped
  \* --- the host socket's event slots
  onopen, onerror, onmessage, onclose,
  \* --- the Socket (adapter)
  adapter,       \* "none" | "live" | "dropped"
  cbLive,        \* the on_message / on_close closures have not been dropped
  messages,      \* the channel's buffered items, oldest first
  msgTag,        \* history, per buffered item: did a close event precede its message event
  chanOpen,      \* the channel has not been closed by close_channel
  rxDone,        \* the receiver has returned None (its inner is released)
  \* --- what the environment observes
  hostCalls,     \* the calls made on the host socket: send / close, in order
  ret,           \* the last adapter operation and what it returned
  deadCall,      \* the host invoked a slot whose closure was already dropped
  \* --- history
  firstHS,       \* first open/error event fired: <<"none">> | <<"open">> | <<"error", e>>
  closeAt,       \* when the first close event fired: "never" | "early" (no live adapter then) | "adapter"
  firedBeforeClose, \* payloads of the message events fired before the first close event
  firedOnAdapter,   \* ... of those fired on a live adapter before any close event
  yielded,       \* what poll_next returned Ready with: <<"item", p>> | <<"eos">>
  yieldedLate,   \* poll_next yielded an item whose message event followed a close event
  firstErrHS,    \* payload of the first error event fired while connect was suspended
                 \* at the race: "none" | e
  nEvents, nOps

progVars == << pc, sockOk, result, open_sender, error_sender, open, error, hsLive,
               onopen, onerror, onmessage, onclose,
               adapter, cbLive, messages, msgTag, chanOpen, rxDone >>
envVars == << hostCalls, ret, deadCall >>
histVars == << firstHS, closeAt, firedBeforeClose, firedOnAdapter,
               yielded, yieldedLate, firstErrHS, nEvents, nOps >>
vars == << progVars, envVars, histVars >>

connVars == << pc, sockOk, result, open_sender, error_sender, open, error, hsLive >>
slotVars == << onopen, onerror, onmessage, onclose >>
chanVars == << messages, msgTag, chanOpen, rxDone >>

\* ------------------------------------------------------------ pure parts

\* vec![0u8; n]
Zeroed(n) == [i \in 1..n |-> 0]

\* Uint8Array::copy_to: every byte of the source view into the destination
copy_to(buffer, dst) == [i \in 1..Len(dst) |-> buffer[i]]

\* (mutant) the Vec is allocated but copy_to is forgotten
ReadData_uncopied(p) == Zeroed(Len(p))

\* the body of on_message up to the send: the event's data as an owned Vec<u8>
ReadData(p) == copy_to(p, Zeroed(Len(p)))

\* UnboundedSender::unbounded_send on the channel: appended while the channel
\* is open, refused (and the item dropped by `let _ =`) once it is closed
unbounded_send(q, isOpen, data) == IF isOpen THEN Append(q, data) ELSE q

\* select(open, error): the first future is polled first, so a ready `open`
\* wins over a ready `error`; .factor_first().0.unwrap() is the winner's value
select(o, e) == IF o # "empty" THEN o ELSE e

\* ------------------------------------------------------------------ Init

Init ==
  /\ pc = "created"
  /\ sockOk \in BOOLEAN
  /\ result = <<"none">>
  /\ open_sender = TRUE /\ error_sender = TRUE
  /\ open = "empty" /\ error = "empty"
  /\ hsLive = FALSE
  /\ onopen = FALSE /\ onerror = FALSE /\ onmessage = FALSE /\ onclose = FALSE
  /\ adapter = "none"
  /\ cbLive = FALSE
  /\ messages = <<>> /\ chanOpen = TRUE /\ rxDone = FALSE
  /\ hostCalls = <<>>
  /\ ret = <<"none">>
  /\ deadCall = FALSE
  /\ firstHS = <<"none">>
  /\ closeAt = "never"
  /\ firedBeforeClose = <<>> /\ firedOnAdapter = <<>>
  /\ msgTag = <<>>
  /\ yielded = <<>>
  /\ yieldedLate = FALSE
  /\ firstErrHS = "none"
  /\ nEvents = 0 /\ nOps = 0

\* ------------------------------------------------- the connect future

\* the channel's two halves are released (queue and its history tags go)
ChannelDropped ==
  /\ messages' = <<>> /\ msgTag' = <<>>
  /\ chanOpen' = FALSE
  /\ UNCHANGED rxDone

\* First poll of the future: `socket?`, the two oneshot channels, the two
\* handshake callbacks, and the first poll of select (nothing can be ready yet).
FirstPoll ==
  /\ pc = "created"
  /\ IF sockOk
       THEN /\ pc' = "awaiting"
            /\ open_sender' = TRUE /\ error_sender' = TRUE
            /\ open' = "empty" /\ error' = "empty"
            /\ hsLive' = TRUE
            /\ onopen' = TRUE /\ onerror' = TRUE
            /\ UNCHANGED << result, chanVars >>
       ELSE /\ pc' = "done"
            /\ result' = <<"Err", CtorErr>>
            /\ ChannelDropped
            /\ UNCHANGED << open_sender, error_sender, open, error, hsLive,
                            onopen, onerror >>
  /\ UNCHANGED << sockOk, onmessage, onclose, adapter, cbLive >>
  /\ UNCHANGED << envVars, histVars >>

\* oneshot::Receiver as select polls it: the value that was sent; Canceled
\* once the sender is gone unsent (taken and dropped, or dropped with the
\* closure that holds it); pending ("empty") otherwise
recv(cell, senderSome, closureLive) ==
  IF cell # "empty" THEN cell
  ELSE IF senderSome /\ closureLive THEN "empty" ELSE "Canceled"

\* (mutant) the handshake slots are cleared on the success path only
Finish_keeping_slots(res) ==
  /\ pc' = "done"
  /\ onopen' = (res # "None") /\ onerror' = (res # "None")
  /\ onmessage' = TRUE /\ onclose' = TRUE
  /\ hsLive' = FALSE
  /\ IF res # "None"
       THEN /\ result' = <<"Err", res>>
            /\ adapter' = "none"
            /\ cbLive' = FALSE
            /\ ChannelDropped
       ELSE /\ result' = <<"Ok">>
            /\ adapter' = "live"
            /\ cbLive' = TRUE
            /\ UNCHANGED chanVars
  /\ UNCHANGED envVars

\* (mutant) the failure path closes the host socket before returning Err
Finish_closing(res) ==
  /\ pc' = "done"
  /\ onopen' = FALSE /\ onerror' = FALSE
  /\ onmessage' = TRUE /\ onclose' = TRUE
  /\ hsLive' = FALSE
  /\ IF res # "None"
       THEN /\ result' = <<"Err", res>>
            /\ adapter' = "none"
            /\ cbLive' = FALSE
            /\ ChannelDropped
            /\ hostCalls' = Append(hostCalls, <<"close", <<>>, "Ok">>)
       ELSE /\ result' = <<"Ok">>
            /\ adapter' = "live"
            /\ cbLive' = TRUE
            /\ UNCHANGED << chanVars, hostCalls >>
  /\ UNCHANGED << ret, deadCall >>

\* the async block after the race: both handshake slots cleared, the message
\* and close callbacks installed, then the result is looked at
Finish(res) ==
  /\ pc' = "done"
  /\ onopen' = FALSE /\ onerror' = FALSE
  /\ onmessage' = TRUE /\ onclose' = TRUE
  /\ hsLive' = FALSE
  /\ IF res # "None"
       THEN /\ result' = <<"Err", res>>
            /\ adapter' = "none"
            /\ cbLive' = FALSE
            /\ ChannelDropped
       ELSE /\ result' = <<"Ok">>
            /\ adapter' = "live"
            /\ cbLive' = TRUE
            /\ UNCHANGED chanVars
  /\ UNCHANGED envVars

\* .unwrap() on a Canceled race result: the task panics, the block's locals
\* are released by the unwinding, the host socket keeps its slots
UnwrapPanics ==
  /\ pc' = "panicked"
  /\ result' = <<"panic">>
  /\ hsLive' = FALSE
  /\ ChannelDropped
  /\ UNCHANGED << slotVars, adapter, cbLive, envVars >>

\* The future is polled again after a callback has made a receiver ready: the
\* rest of the async block runs to its end without suspending.
Resume ==
  /\ pc = "awaiting"
  /\ LET o == recv(open, open_sender, hsLive)
         e == recv(error, error_sender, hsLive)
     IN  /\ o # "empty" \/ e # "empty"
         /\ IF select(o, e) = "Canceled" THEN UnwrapPanics ELSE Finish(select(o, e))
  /\ UNCHANGED << sockOk, open_sender, error_sender, open, error >>
  /\ UNCHANGED histVars

\* The caller drops the future before it has completed: everything the async
\* block owns is released, the host socket keeps whatever slots were set.
Abandon ==
  /\ pc \in {"created", "awaiting"}
  /\ pc' = "abandoned"
  /\ hsLive' = FALSE
  /\ ChannelDropped
  /\ UNCHANGED << sockOk, result, open_sender, error_sender, open, error,
                  slotVars, adapter, cbLive >>
  /\ UNCHANGED << envVars, histVars >>

\* ------------------------------------------------------ the host's events

HostCanFire == sockOk /\ nEvents < MaxEvents

\* (mutant) the sender is taken and dropped without sending
on_open_unsent ==
  /\ open_sender' = FALSE
  /\ UNCHANGED << open, error, error_sender >>

\* on_open: open_sender.take().map(|sender| sender.send(None))
on_open ==
  /\ open' = IF open_sender THEN "None" ELSE open
  /\ open_sender' = FALSE
  /\ UNCHANGED << error, error_sender >>

\* (mutant) the event's payload is replaced by a fixed value
on_error_opaque(e) ==
  /\ error' = IF error_sender THEN "failed" ELSE error
  /\ error_sender' = FALSE
  /\ UNCHANGED << open, open_sender >>

\* on_error: error_sender.take().map(|sender| sender.send(Some(e)))
on_error(e) ==
  /\ error' = IF error_sender THEN e ELSE error
  /\ error_sender' = FALSE
  /\ UNCHANGED << open, open_sender >>

\* on_message: the payload is copied out of the event and pushed on the channel
on_message(p) ==
  /\ messages' = unbounded_send(messages, chanOpen, ReadData(p))
  /\ msgTag' = unbounded_send(msgTag, chanOpen, closeAt # "never")
  /\ UNCHANGED << chanOpen, rxDone >>

\* on_close: sender.close_channel()
on_close ==
  /\ chanOpen' = FALSE
  /\ UNCHANGED << messages, msgTag, rxDone >>

FireOpen ==
  /\ HostCanFire
  /\ nEvents' = nEvents + 1
  /\ firstHS' = IF firstHS = <<"none">> THEN <<"open">> ELSE firstHS
  /\ IF onopen /\ hsLive
       THEN on_open /\ UNCHANGED deadCall
       ELSE /\ deadCall' = (deadCall \/ onopen)
            /\ UNCHANGED << open, open_sender, error, error_sender >>
  /\ UNCHANGED << pc, sockOk, result, hsLive, slotVars, adapter, cbLive, chanVars >>
  /\ UNCHANGED << hostCalls, ret, closeAt, firedBeforeClose, firedOnAdapter,
                  yielded, yieldedLate, firstErrHS, nOps >>

FireError ==
  \E e \in Errors :
    /\ HostCanFire
    /\ nEvents' = nEvents + 1
    /\ firstHS' = IF firstHS = <<"none">> THEN <<"error", e>> ELSE firstHS
    /\ firstErrHS' = IF pc = "awaiting" /\ firstErrHS = "none" THEN e ELSE firstErrHS
    /\ IF onerror /\ hsLive
         THEN on_error(e) /\ UNCHANGED deadCall
         ELSE /\ deadCall' = (deadCall \/ onerror)
              /\ UNCHANGED << open, open_sender, error, error_sender >>
    /\ UNCHANGED << pc, sockOk, result, hsLive, slotVars, adapter, cbLive, chanVars >>
    /\ UNCHANGED << hostCalls, ret, closeAt, firedBeforeClose, firedOnAdapter,
                    yielded, yieldedLate, nOps >>

FireMessage ==
  \E p \in Payloads :
    /\ HostCanFire
    /\ nEvents' = nEvents + 1
    /\ firedBeforeClose' = IF closeAt = "never"
                             THEN Append(firedBeforeClose, p) ELSE firedBeforeClose
    /\ firedOnAdapter' = IF closeAt = "never" /\ adapter = "live"
                           THEN Append(firedOnAdapter, p) ELSE firedOnAdapter
    /\ IF onmessage /\ cbLive
         THEN on_message(p) /\ UNCHANGED deadCall
         ELSE /\ deadCall' = (deadCall \/ onmessage)
              /\ UNCHANGED chanVars
    /\ UNCHANGED << connVars, slotVars, adapter, cbLive >>
    /\ UNCHANGED << hostCalls, ret, firstHS, closeAt, yielded, yieldedLate,
                    firstErrHS, nOps >>

FireClose ==
  /\ HostCanFire
  /\ nEvents' = nEvents + 1
  /\ closeAt' = IF closeAt # "never" THEN closeAt
                ELSE IF adapter = "live" THEN "adapter" ELSE "early"
  /\ IF onclose /\ cbLive
       THEN on_close /\ UNCHANGED deadCall
       ELSE /\ deadCall' = (deadCall \/ onclose)
            /\ UNCHANGED chanVars
  /\ UNCHANGED << connVars, slotVars, adapter, cbLive >>
  /\ UNCHANGED << hostCalls, ret, firstHS, firedBeforeClose, firedOnAdapter,
                  yielded, yieldedLate, firstErrHS, nOps >>

\* ------------------------------------------------ the adapter's operations

AdapterOp == adapter = "live" /\ nOps < MaxOps

\* what the host answers to send() / close(): accepted, or thrown back
HostAnswers == { "Ok", HostErr }

\* (mutant) an empty queue is reported as the end of the stream
poll_next_eager ==
  /\ AdapterOp
  /\ nOps' = nOps + 1
  /\ IF messages # <<>>
       THEN /\ ret' = <<"poll_next", "Ready", <<"item", Head(messages)>> >>
            /\ yielded' = Append(yielded, <<"item", Head(messages)>>)
            /\ yieldedLate' = (yieldedLate \/ Head(msgTag))
            /\ messages' = Tail(messages)
            /\ msgTag' = Tail(msgTag)
            /\ UNCHANGED << chanOpen, rxDone >>
       ELSE /\ ret' = <<"poll_next", "Ready", <<"eos">> >>
            /\ yielded' = Append(yielded, <<"eos">>)
            /\ UNCHANGED << chanVars, yieldedLate >>
  /\ UNCHANGED << connVars, slotVars, adapter, cbLive, hostCalls, deadCall >>
  /\ UNCHANGED << firstHS, closeAt, firedBeforeClose, firedOnAdapter, firstErrHS, nEvents >>

\* Stream::poll_next = UnboundedReceiver::poll_next on `messages`
poll_next ==
  /\ AdapterOp
  /\ nOps' = nOps + 1
  /\ IF rxDone
       THEN /\ ret' = <<"poll_next", "Ready", <<"eos">> >>
            /\ yielded' = Append(yielded, <<"eos">>)
            /\ UNCHANGED << chanVars, yieldedLate >>
       ELSE IF messages # <<>>
       THEN /\ ret' = <<"poll_next", "Ready", <<"item", Head(messages)>> >>
            /\ yielded' = Append(yielded, <<"item", Head(messages)>>)
            /\ yieldedLate' = (yieldedLate \/ Head(msgTag))
            /\ messages' = Tail(messages)
            /\ msgTag' = Tail(msgTag)
            /\ UNCHANGED << chanOpen, rxDone >>
       ELSE IF ~chanOpen
       THEN /\ ret' = <<"poll_next", "Ready", <<"eos">> >>
            /\ yielded' = Append(yielded, <<"eos">>)
            /\ rxDone' = TRUE
            /\ UNCHANGED << messages, msgTag, chanOpen, yieldedLate >>
       ELSE /\ ret' = <<"poll_next", "Pending">>
            /\ UNCHANGED << chanVars, yielded, yieldedLate >>
  /\ UNCHANGED << connVars, slotVars, adapter, cbLive, hostCalls, deadCall >>
  /\ UNCHANGED << firstHS, closeAt, firedBeforeClose, firedOnAdapter, firstErrHS, nEvents >>

\* (mutant) readiness follows the inbound channel: not ready once it is closed
poll_ready_gated ==
  /\ AdapterOp
  /\ nOps' = nOps + 1
  /\ ret' = IF chanOpen THEN <<"poll_ready", "Ready", "Ok">> ELSE <<"poll_ready", "Pending">>
  /\ UNCHANGED << progVars, hostCalls, deadCall >>
  /\ UNCHANGED << firstHS, closeAt, firedBeforeClose, firedOnAdapter, firstErrHS,
                  yielded, yieldedLate, nEvents >>

\* Sink::poll_ready
poll_ready ==
  /\ AdapterOp
  /\ nOps' = nOps + 1
  /\ ret' = <<"poll_ready", "Ready", "Ok">>
  /\ UNCHANGED << progVars, hostCalls, deadCall >>
  /\ UNCHANGED << firstHS, closeAt, firedBeforeClose, firedOnAdapter, firstErrHS,
                  yielded, yieldedLate, nEvents >>

\* (mutant) a rejected send also shuts the inbound channel
start_send_closing(item, answer) ==
  /\ AdapterOp
  /\ nOps' = nOps + 1
  /\ hostCalls' = Append(hostCalls, <<"send", item, answer>>)
  /\ ret' = <<"start_send", answer>>
  /\ chanOpen' = (chanOpen /\ answer = "Ok")
  /\ UNCHANGED << connVars, slotVars, adapter, cbLive, messages, msgTag, rxDone,
                  deadCall >>
  /\ UNCHANGED << firstHS, closeAt, firedBeforeClose, firedOnAdapter, firstErrHS,
                  yielded, yieldedLate, nEvents >>

\* Sink::start_send: self.inner.send_with_u8_array(&item), its Result returned
start_send(item, answer) ==
  /\ AdapterOp
  /\ nOps' = nOps + 1
  /\ hostCalls' = Append(hostCalls, <<"send", item, answer>>)
  /\ ret' = <<"start_send", answer>>
  /\ UNCHANGED << progVars, deadCall >>
  /\ UNCHANGED << firstHS, closeAt, firedBeforeClose, firedOnAdapter, firstErrHS,
                  yielded, yieldedLate, nEvents >>

\* Sink::poll_flush
poll_flush ==
  /\ AdapterOp
  /\ nOps' = nOps + 1
  /\ ret' = <<"poll_flush", "Ready", "Ok">>
  /\ UNCHANGED << progVars, hostCalls, deadCall >>
  /\ UNCHANGED << firstHS, closeAt, firedBeforeClose, firedOnAdapter, firstErrHS,
                  yielded, yieldedLate, nEvents >>

\* (mutant) the explicit close also closes the inbound channel
poll_close_closing(answer) ==
  /\ AdapterOp
  /\ nOps' = nOps + 1
  /\ hostCalls' = Append(hostCalls, <<"close", <<>>, answer>>)
  /\ ret' = <<"poll_close", "Ready", answer>>
  /\ chanOpen' = FALSE
  /\ UNCHANGED << connVars, slotVars, adapter, cbLive, messages, msgTag, rxDone,
                  deadCall >>
  /\ UNCHANGED << firstHS, closeAt, firedBeforeClose, firedOnAdapter, firstErrHS,
                  yielded, yieldedLate, nEvents >>

\* Sink::poll_close: self.inner.close()?; Poll::Ready(Ok(()))
poll_close(answer) ==
  /\ AdapterOp
  /\ nOps' = nOps + 1
  /\ hostCalls' = Append(hostCalls, <<"close", <<>>, answer>>)
  /\ ret' = <<"poll_close", "Ready", answer>>
  /\ UNCHANGED << progVars, deadCall >>
  /\ UNCHANGED << firstHS, closeAt, firedBeforeClose, firedOnAdapter, firstErrHS,
                  yielded, yieldedLate, nEvents >>

\* (mutant) the destructor skips close() once a close was already requested
drop_unless_closed(answer) ==
  /\ AdapterOp
  /\ nOps' = nOps + 1
  /\ hostCalls' = IF \E i \in 1..Len(hostCalls) : hostCalls[i][1] = "close"
                    THEN hostCalls
                    ELSE Append(hostCalls, <<"close", <<>>, answer>>)
  /\ ret' = <<"drop", "unit">>
  /\ adapter' = "dropped"
  /\ cbLive' = FALSE
  /\ ChannelDropped
  /\ UNCHANGED << connVars, slotVars, deadCall >>
  /\ UNCHANGED << firstHS, closeAt, firedBeforeClose, firedOnAdapter, firstErrHS,
                  yielded, yieldedLate, nEvents >>

\* Drop::drop: `let _ = self.inner.close()`, then the fields are released:
\* the two closures (with the channel's senders) and the receiver
drop(answer) ==
  /\ AdapterOp
  /\ nOps' = nOps + 1
  /\ hostCalls' = Append(hostCalls, <<"close", <<>>, answer>>)
  /\ ret' = <<"drop", "unit">>
  /\ adapter' = "dropped"
  /\ cbLive' = FALSE
  /\ ChannelDropped
  /\ UNCHANGED << connVars, slotVars, deadCall >>
  /\ UNCHANGED << firstHS, closeAt, firedBeforeClose, firedOnAdapter, firstErrHS,
                  yielded, yieldedLate, nEvents >>

StartSend == \E item \in Outbound, answer \in HostAnswers : start_send(item, answer)
PollClose == \E answer \in HostAnswers : poll_close(answer)
Drop == \E answer \in HostAnswers : drop(answer)

\* ------------------------------------------------------------ the system

Next ==
  \/ FirstPoll
  \/ Resume
  \/ Abandon
  \/ FireOpen
  \/ FireError
  \/ FireMessage
  \/ FireClose
  \/ poll_next
  \/ poll_ready
  \/ StartSend
  \/ poll_flush
  \/ PollClose
  \/ Drop

Spec == Init /\ [][Next]_vars

\* ---------------------------------------------- the fairly scheduled system

\* (mutant) close_channel does not wake the consumer: it is polled again only
\* when an item is buffered
Consume_unwoken_by_close ==
  /\ adapter = "live"
  /\ messages # <<>>
  /\ ret' = <<"poll_next", "Ready", <<"item", Head(messages)>> >>
  /\ yielded' = Append(yielded, <<"item", Head(messages)>>)
  /\ yieldedLate' = (yieldedLate \/ Head(msgTag))
  /\ messages' = Tail(messages)
  /\ msgTag' = Tail(msgTag)
  /\ UNCHANGED << chanOpen, rxDone >>
  /\ UNCHANGED << connVars, slotVars, adapter, cbLive, hostCalls, deadCall >>
  /\ UNCHANGED << firstHS, closeAt, firedBeforeClose, firedOnAdapter, firstErrHS,
                  nEvents, nOps >>

\* The consumer task, suspended in poll_next, is woken by unbounded_send or
\* close_channel and polls again: Stream::poll_next with something to return.
Consume ==
  /\ adapter = "live"
  /\ messages # <<>> \/ (~chanOpen /\ ~rxDone)
  /\ IF messages # <<>>
       THEN /\ ret' = <<"poll_next", "Ready", <<"item", Head(messages)>> >>
            /\ yielded' = Append(yielded, <<"item", Head(messages)>>)
            /\ yieldedLate' = (yieldedLate \/ Head(msgTag))
            /\ messages' = Tail(messages)
            /\ msgTag' = Tail(msgTag)
            /\ UNCHANGED << chanOpen, rxDone >>
       ELSE /\ ret' = <<"poll_next", "Ready", <<"eos">> >>
            /\ yielded' = Append(yielded, <<"eos">>)
            /\ rxDone' = TRUE
            /\ UNCHANGED << messages, msgTag, chanOpen, yieldedLate >>
  /\ UNCHANGED << connVars, slotVars, adapter, cbLive, hostCalls, deadCall >>
  /\ UNCHANGED << firstHS, closeAt, firedBeforeClose, firedOnAdapter, firstErrHS,
                  nEvents, nOps >>

\* The host, the connect task and the consumer task; the caller may still
\* poll by hand, abandon the connect future or drop the adapter.
NextFair ==
  \/ FirstPoll
  \/ Resume
  \/ Abandon
  \/ FireOpen
  \/ FireError
  \/ FireMessage
  \/ FireClose
  \/ poll_next
  \/ Consume
  \/ Drop

\* the executor polls a task that has been created or woken
SpecFair ==
  /\ Init /\ [][NextFair]_vars
  /\ WF_vars(FirstPoll) /\ WF_vars(Resume) /\ WF_vars(Consume)

\* ------------------------------------------------------------ the claims

\* the payloads among what poll_next has yielded, in order
ItemsOf(ys) ==
  LET it == SelectSeq(ys, LAMBDA y : y[1] = "item")
  IN  [i \in 1..Len(it) |-> it[i][2]]

HasEos == \E i \in 1..Len(yielded) : yielded[i] = <<"eos">>

LastCall == hostCalls[Len(hostCalls)]

\* C1: on an adapter returned by connect, with no close event fired so far
\* (or the first one fired on the adapter), the payloads poll_next has yielded
\* followed by the ones still buffered are exactly the payloads of the message
\* events fired on the adapter before the close event, byte for byte and in
\* the order fired.
C1_InOrderDelivery ==
  (adapter = "live" /\ closeAt # "early")
    => ItemsOf(yielded) \o messages = firedOnAdapter

C1_Witness ==
  /\ adapter = "live" /\ closeAt = "never"
  /\ Len(firedOnAdapter) = 2
  /\ firedOnAdapter[1] # firedOnAdapter[2]
  /\ ItemsOf(yielded) = firedOnAdapter

\* C2 (as claimed): when the first handshake event the host fired is an error
\* event, a completed connect has returned Err carrying that event's payload.
C2_ErrorFirstFails ==
  (pc = "done" /\ firstHS[1] = "error") => result = <<"Err", firstHS[2]>>

\* C3 (as claimed): when the first handshake event the host fired is the open
\* event, a completed connect has returned Ok, whatever error events followed.
C3_OpenFirstSucceeds ==
  (pc = "done" /\ firstHS = <<"open">>) => result = <<"Ok">>

\* C4 (as claimed): poll_next never yields the payload of a message event that
\* was fired after a close event.
C4_NothingAfterClose == ~yieldedLate

\* C5 (as claimed): when poll_next has yielded end-of-stream, a close event
\* has fired and the payloads yielded are exactly those of the message events
\* fired before it, in order.
C5_EosAfterAllPayloads ==
  HasEos => (closeAt # "never" /\ ItemsOf(yielded) = firedBeforeClose)

\* C6 (as claimed): after connect has failed, neither the message slot nor the
\* close slot of the host socket is set.
C6_NoCallbacksAfterFailure ==
  (pc = "done" /\ result[1] = "Err") => (~onmessage /\ ~onclose)

\* C7: the step that drops a live adapter appends exactly one close request to
\* the host's calls and returns nothing, whatever the host answers and
\* whatever was called before.
C7_DropClosesOnce ==
  [][ (adapter = "live" /\ adapter' = "dropped")
        => /\ Len(hostCalls') = Len(hostCalls) + 1
           /\ SubSeq(hostCalls', 1, Len(hostCalls)) = hostCalls
           /\ hostCalls'[Len(hostCalls')][1] = "close"
           /\ ret' = <<"drop", "unit">> ]_vars

C7_Witness ==
  /\ adapter = "dropped"
  /\ closeAt = "adapter"
  /\ Len(hostCalls) = 3
  /\ hostCalls[1][1] = "send" /\ hostCalls[1][3] = HostErr
  /\ hostCalls[2] = <<"close", <<>>, "Ok">>
  /\ hostCalls[3] = <<"close", <<>>, HostErr>>

\* C8: a start_send the host rejects returns the host's error, makes no other
\* host call, and leaves the adapter, the channel and the slots as they were.
C8_SendErrorSurfaces ==
  [][ ( /\ nOps' # nOps
        /\ Len(hostCalls') > Len(hostCalls)
        /\ hostCalls'[Len(hostCalls) + 1][1] = "send"
        /\ hostCalls'[Len(hostCalls) + 1][3] = HostErr )
        => /\ ret' = <<"start_send", HostErr>>
           /\ Len(hostCalls') = Len(hostCalls) + 1
           /\ UNCHANGED progVars ]_vars

C8_Witness ==
  /\ adapter = "live"
  /\ Len(hostCalls) = 2
  /\ hostCalls[1][1] = "send" /\ hostCalls[1][3] = HostErr
  /\ hostCalls[2][1] = "send" /\ hostCalls[2][3] = "Ok"
  /\ Len(ItemsOf(yielded)) = 1

\* C9: a poll_close step makes exactly one close request, returns Ready with
\* the host's answer to it, and leaves the channel as it was; and end-of-stream
\* is yielded only when a close event has fired.
C9_CloseDoesNotWait ==
  /\ [][ (nOps' # nOps /\ ret'[1] = "poll_close")
           => /\ Len(hostCalls') = Len(hostCalls) + 1
              /\ SubSeq(hostCalls', 1, Len(hostCalls)) = hostCalls
              /\ hostCalls'[Len(hostCalls')][1] = "close"
              /\ ret' = <<"poll_close", "Ready", hostCalls'[Len(hostCalls')][3]>>
              /\ UNCHANGED progVars ]_vars
  /\ [](HasEos => closeAt # "never")

C9_Witness ==
  /\ adapter = "live"
  /\ hostCalls = << <<"close", <<>>, HostErr>> >>
  /\ closeAt = "adapter"
  /\ ret = <<"poll_next", "Ready", <<"eos">> >>

\* C10: once poll_next has yielded end-of-stream, everything it yields later
\* is end-of-stream.
C10_EosIsFinal ==
  \A i, j \in 1..Len(yielded) :
    (i < j /\ yielded[i] = <<"eos">>) => yielded[j] = <<"eos">>

C10_Witness ==
  /\ Len(yielded) >= 2
  /\ yielded[Len(yielded) - 1] = <<"eos">>
  /\ yielded[Len(yielded)] = <<"eos">>
  /\ nEvents = MaxEvents

\* C11 (as claimed): every failure value connect returns is the payload of an
\* error event the host fired during the handshake.
C11_FailureFromErrorEvent ==
  (pc = "done" /\ result[1] = "Err")
    => (firstErrHS # "none" /\ result[2] = firstErrHS)

\* C11 (amended): a completed connect has returned Ok with an adapter, or Err
\* without one; the Err value is what WebSocket::new failed with when no host
\* socket was created, and otherwise the payload of the first error event
\* fired while connect was suspended at the race.
C11_FailureValue ==
  pc = "done" =>
    \/ result = <<"Ok">> /\ adapter \in {"live", "dropped"} /\ sockOk
    \/ /\ result[1] = "Err" /\ adapter = "none"
       /\ IF sockOk THEN firstErrHS # "none" /\ result[2] = firstErrHS
                    ELSE result[2] = CtorErr

C11_Witness ==
  /\ pc = "done"
  /\ firstHS = <<"error", "e1">>
  /\ result = <<"Err", "e2">>

\* C12 (as claimed): no slot of the host socket is set to a closure that has
\* been released, and the host never invokes a released closure.
C12_NoDanglingCallback ==
  /\ (onopen \/ onerror) => hsLive
  /\ (onmessage \/ onclose) => cbLive
  /\ ~deadCall

\* C13: a poll_ready or poll_flush step returns Ready(Ok), makes no host call
\* and leaves the adapter, the channel and the slots as they were.
C13_ReadyAndFlushAreNoOps ==
  [][ (nOps' # nOps /\ ret'[1] \in {"poll_ready", "poll_flush"})
        => /\ ret' = <<ret'[1], "Ready", "Ok">>
           /\ UNCHANGED << progVars, hostCalls >> ]_vars

C13_Witness ==
  /\ adapter = "live"
  /\ closeAt = "adapter" /\ ~chanOpen
  /\ Len(hostCalls) = 2
  /\ hostCalls[1][1] = "send" /\ hostCalls[1][3] = HostErr
  /\ hostCalls[2][1] = "close"
  /\ ret \in { <<"poll_ready", "Ready", "Ok">>, <<"poll_flush", "Ready", "Ok">> }

\* C14 (as claimed): once a handshake callback has delivered an outcome, no
\* later firing changes the result the suspended connect will return.
C14_OutcomeFinal ==
  [][ ( /\ pc = "awaiting" /\ pc' = "awaiting"
        /\ (open # "empty" \/ error # "empty") )
        => select(open', error') = select(open, error) ]_vars

\* C15: once connect has returned, neither the open slot nor the error slot
\* is set, and nothing the handshake callbacks write changes any more.
C15_HandshakeSlotsCleared ==
  /\ [](pc = "done" => (~onopen /\ ~onerror))
  /\ [][ pc = "done"
           => UNCHANGED << open, error, open_sender, error_sender, result >> ]_vars

C15_Witness ==
  /\ pc = "done"
  /\ result[1] = "Err" /\ result[2] \in Errors
  /\ open = "empty"
  /\ nEvents = MaxEvents

\* C16: when connect has failed there is no adapter, and no call (close or
\* send) has been made on the host socket.
C16_FailureAbandonsSocket ==
  (pc = "done" /\ result[1] = "Err") => (adapter = "none" /\ hostCalls = <<>>)

C16_Witness ==
  /\ pc = "done" /\ sockOk
  /\ result[1] = "Err"
  /\ closeAt = "early"
  /\ nEvents = MaxEvents

\* C19 (as claimed): a message event fired after on_open has run, and before
\* any close event, is pushed on the channel, and the first close event fired
\* after on_open has run closes the channel, also while the connect task has
\* not been resumed yet.
C19_NothingLostAfterOpen ==
  [][ ( open = "None" /\ (pc = "awaiting" \/ adapter = "live") )
        => /\ Len(firedBeforeClose') > Len(firedBeforeClose)
                => messages' = Append(messages, firedBeforeClose'[Len(firedBeforeClose')])
           /\ (closeAt = "never" /\ closeAt' # "never") => ~chanOpen' ]_vars

\* C20: the race result the suspended connect would take is never a
\* cancellation, and connect has never panicked.
C20_UnwrapSucceeds ==
  /\ pc # "panicked"
  /\ pc = "awaiting"
       => select(recv(open, open_sender, hsLive), recv(error, error_sender, hsLive))
            # "Canceled"

C20_Witness ==
  /\ pc = "awaiting"
  /\ open = "None" /\ error \in Errors
  /\ nEvents = MaxEvents

C18_ConnectCompletes ==
  /\ (pc = "done" /\ sockOk) => firstHS # <<"none">>
  /\ (sockOk /\ firstHS # <<"none">>)
       => \/ pc \in {"done", "abandoned", "created"}
          \/ pc = "awaiting" /\ (open # "empty" \/ error # "empty")

====
